---- MODULE Spec2Model ----
(***************************************************************************)
(* Model of Models/Malay DL Models/BERT_Ori.py: the chunker                *)
(* (tokenize_and_chunk), the flattener (flatten_chunks), the aggregator    *)
(* (aggregate_predictions) and the embedding store (vectorize_text,        *)
(* load_embeddings_and_labels).                                            *)
(*                                                                         *)
(* Python lists and numpy arrays are sequences.  A function call is one    *)
(* action that moves the function's pc from "call" to "returned" or        *)
(* "raised"; vectorize_text is modelled step by step because its loop      *)
(* calls the external encoder and appends to the file between steps.       *)
(***************************************************************************)
EXTENDS Integers, Sequences, FiniteSets, TLC

VARIABLES
    \* tokenize_and_chunk
    text, max_length, chunks, chunk_pc,
    \* flatten_chunks
    fl_texts, fl_labels, fl_out, fl_pc,
    \* aggregate_predictions
    text_chunks, predictions, aggregated_predictions, agg_pc,
    \* vectorize_text / load_embeddings_and_labels
    texts, labels, batch_size, file, i, embeddings, all_labels, wpc,
    runs, fail_k, loaded, rpc

chunkVars == <<text, max_length, chunks, chunk_pc>>
flatVars  == <<fl_texts, fl_labels, fl_out, fl_pc>>
aggVars   == <<text_chunks, predictions, aggregated_predictions, agg_pc>>
storeVars == <<texts, labels, batch_size, file, i, embeddings, all_labels,
               wpc, runs, fail_k, loaded, rpc>>
vars == <<chunkVars, flatVars, aggVars, storeVars>>

----------------------------------------------------------------------------
(* Bounds *)

MaxTextLen == 4      \* words in one document's combined text
MaxPayload == 3      \* largest max_length - Margin explored
MaxDocs == 2         \* documents handed to flatten / aggregate
MaxChunks == 3       \* chunks per document
MaxPreds == 5        \* chunk predictions handed to aggregate
PredLevels == 2      \* a prediction is k / PredLevels, k in 0..PredLevels
MaxRecords == 4      \* chunks handed to vectorize_text
MaxBatch == 3        \* largest batch_size explored
MaxRuns == 2         \* calls of vectorize_text on the same file

----------------------------------------------------------------------------
(* Generic helpers *)

Min(a, b) == IF a < b THEN a ELSE b
Max(a, b) == IF a > b THEN a ELSE b

SeqsUpTo(S, n) == UNION {[1..k -> S] : k \in 0..n}

RECURSIVE SumSeq(_)
SumSeq(s) == IF s = <<>> THEN 0 ELSE Head(s) + SumSeq(Tail(s))

RECURSIVE Concat(_)
Concat(ss) == IF ss = <<>> THEN <<>> ELSE Head(ss) \o Concat(Tail(ss))

Lengths(ss) == [d \in 1..Len(ss) |-> Len(ss[d])]

\* Sum of the first d entries of a sequence of integers
PrefixSum(s, d) == SumSeq(SubSeq(s, 1, d))

\* ceil(a / b) over the reals, for a >= 0 and b # 0
CeilDiv(a, b) == IF b > 0 THEN (a + b - 1) \div b ELSE -(a \div (-b))

RECURSIVE GCD(_, _)
GCD(a, b) == IF b = 0 THEN a ELSE GCD(b, a % b)

\* Python's s[a:b] for 0 <= a <= b: the slice is clamped to the sequence
PySlice(s, a, b) == SubSeq(s, Min(a, Len(s)) + 1, Min(b, Len(s)))

----------------------------------------------------------------------------
(* Chunker: tokenize_and_chunk *)

cls_token_id == 101
sep_token_id == 102
Margin == 10
WordIds == {1, 2}

\* tokenizer.encode(text, add_special_tokens=True): the word ids wrapped in
\* the tokenizer's own [CLS] ... [SEP]
encode(t) == <<cls_token_id>> \o t \o <<sep_token_id>>

\* range(start, stop, step) for start = 0, as the sequence of its values;
\* a negative step yields nothing (step = 0 raises and is handled by the caller)
RECURSIVE PyRange(_, _, _)
PyRange(start, stop, step) ==
    IF step <= 0 \/ start >= stop THEN <<>>
    ELSE <<start>> \o PyRange(start + step, stop, step)

\* A window one token short: tokenized[i : i + adjusted_max_length - 1]
tokenize_and_chunk_dropping(t, L) ==
    LET tokenized == encode(t)
        adjusted_max_length == L - Margin
        starts == PyRange(0, Len(tokenized), adjusted_max_length)
    IN  IF adjusted_max_length = 0
        THEN [status |-> "ValueError", value |-> <<>>]
        ELSE [status |-> "ok",
              value |-> [k \in 1..Len(starts) |->
                  <<cls_token_id>>
                  \o PySlice(tokenized, starts[k], starts[k] + adjusted_max_length - 1)
                  \o <<sep_token_id>>]]

\* The margin taken as 9 instead of 10
tokenize_and_chunk_margin(t, L) ==
    LET tokenized == encode(t)
        adjusted_max_length == L - (Margin - 1)
        starts == PyRange(0, Len(tokenized), adjusted_max_length)
    IN  IF adjusted_max_length = 0
        THEN [status |-> "ValueError", value |-> <<>>]
        ELSE [status |-> "ok",
              value |-> [k \in 1..Len(starts) |->
                  <<cls_token_id>>
                  \o PySlice(tokenized, starts[k], starts[k] + adjusted_max_length)
                  \o <<sep_token_id>>]]

tokenize_and_chunk(t, L) ==
    LET tokenized == encode(t)
        adjusted_max_length == L - Margin
        starts == PyRange(0, Len(tokenized), adjusted_max_length)
    IN  IF adjusted_max_length = 0
        THEN [status |-> "ValueError", value |-> <<>>]   \* range() arg 3 must not be zero
        ELSE [status |-> "ok",
              value |-> [k \in 1..Len(starts) |->
                  <<cls_token_id>>
                  \o PySlice(tokenized, starts[k], starts[k] + adjusted_max_length)
                  \o <<sep_token_id>>]]

ChunkIdle == /\ text = <<>> /\ max_length = 0 /\ chunks = <<>> /\ chunk_pc = "off"

ChunkInit ==
    /\ text \in SeqsUpTo(WordIds, MaxTextLen)
    /\ max_length \in (Margin - 1)..(Margin + MaxPayload)
    /\ chunks = <<>>
    /\ chunk_pc = "call"

ChunkCall ==
    /\ chunk_pc = "call"
    /\ LET r == tokenize_and_chunk(text, max_length)
       IN  /\ chunks' = r.value
           /\ chunk_pc' = IF r.status = "ok" THEN "returned" ELSE "raised"
    /\ UNCHANGED <<text, max_length>>

----------------------------------------------------------------------------
(* Flattener: flatten_chunks *)

ChunkIds == {1, 2}
Labels == {0, 1}

\* zip(a, b) stops at the shorter of the two
ZipLen(a, b) == Min(Len(a), Len(b))

\* The inner loop for one document: every chunk of the document, in order,
\* each paired with the document's label
RECURSIVE FlattenFrom(_, _, _, _)
FlattenFrom(ts, ls, d, n) ==
    IF d > n THEN [all_texts |-> <<>>, all_labels |-> <<>>]
    ELSE LET rest == FlattenFrom(ts, ls, d + 1, n)
         IN  [all_texts  |-> ts[d] \o rest.all_texts,
              all_labels |-> [c \in 1..Len(ts[d]) |-> ls[d]] \o rest.all_labels]

\* Every chunk paired with the label of the first document
flatten_chunks_first_label(ts, ls) ==
    LET out == FlattenFrom(ts, ls, 1, ZipLen(ts, ls))
    IN  [status |-> "ok",
         all_texts |-> out.all_texts,
         all_labels |-> [c \in 1..Len(out.all_labels) |-> ls[1]]]

flatten_chunks(ts, ls) ==
    LET out == FlattenFrom(ts, ls, 1, ZipLen(ts, ls))
    IN  IF Len(out.all_texts) # Len(out.all_labels)
        THEN [status |-> "AssertionError", all_texts |-> <<>>, all_labels |-> <<>>]
        ELSE [status |-> "ok", all_texts |-> out.all_texts, all_labels |-> out.all_labels]

NoFlat == [status |-> "none", all_texts |-> <<>>, all_labels |-> <<>>]

FlatIdle == /\ fl_texts = <<>> /\ fl_labels = <<>> /\ fl_out = NoFlat /\ fl_pc = "off"

FlatInit ==
    /\ fl_texts \in SeqsUpTo(SeqsUpTo(ChunkIds, MaxChunks), MaxDocs)
    /\ fl_labels \in SeqsUpTo(Labels, MaxDocs)
    /\ fl_out = NoFlat
    /\ fl_pc = "call"

FlattenCall ==
    /\ fl_pc = "call"
    /\ LET r == flatten_chunks(fl_texts, fl_labels)
       IN  /\ fl_out' = r
           /\ fl_pc' = IF r.status = "ok" THEN "returned" ELSE "raised"
    /\ UNCHANGED <<fl_texts, fl_labels>>

----------------------------------------------------------------------------
(* Aggregator: aggregate_predictions *)

\* A mean is the exact fraction num / den in lowest terms; NaN is 0 / 0
NaN == [num |-> 0, den |-> 0]

\* np.mean: the mean of an empty slice is nan (a warning, not an exception)
np_mean(xs) ==
    IF xs = <<>> THEN NaN
    ELSE LET s == SumSeq(xs)
             g == GCD(s, Len(xs) * PredLevels)
         IN  [num |-> s \div g, den |-> (Len(xs) * PredLevels) \div g]

RECURSIVE AggregateFrom(_, _, _, _)
AggregateFrom(tc, preds, d, idx) ==
    IF d > Len(tc) THEN <<>>
    ELSE LET num_chunks == Len(tc[d])
         IN  <<np_mean(PySlice(preds, idx, idx + num_chunks))>>
             \o AggregateFrom(tc, preds, d + 1, idx + num_chunks)

\* idx advanced by one per document instead of by the document's chunk count
RECURSIVE AggregateStepOne(_, _, _, _)
AggregateStepOne(tc, preds, d, idx) ==
    IF d > Len(tc) THEN <<>>
    ELSE LET num_chunks == Len(tc[d])
         IN  <<np_mean(PySlice(preds, idx, idx + num_chunks))>>
             \o AggregateStepOne(tc, preds, d + 1, idx + 1)

aggregate_predictions_step_one(tc, preds) == AggregateStepOne(tc, preds, 1, 0)

aggregate_predictions(tc, preds) == AggregateFrom(tc, preds, 1, 0)

\* A ChunkSet holds at least one chunk; only its length is read here
ChunkSets == {[c \in 1..k |-> 1] : k \in 1..MaxChunks}

AggIdle ==
    /\ text_chunks = <<>> /\ predictions = <<>>
    /\ aggregated_predictions = <<>> /\ agg_pc = "off"

AggInit ==
    /\ text_chunks \in SeqsUpTo(ChunkSets, MaxDocs)
    /\ predictions \in SeqsUpTo(0..PredLevels, MaxPreds)
    /\ aggregated_predictions = <<>>
    /\ agg_pc = "call"

AggregateCall ==
    /\ agg_pc = "call"
    /\ aggregated_predictions' = aggregate_predictions(text_chunks, predictions)
    /\ agg_pc' = "returned"
    /\ UNCHANGED <<text_chunks, predictions>>

----------------------------------------------------------------------------
(* Embedding store: vectorize_text and load_embeddings_and_labels *)

\* The file is Absent or the sequence of the np.save blocks appended to it.
\* A block records the array's number of dimensions and its rows.
Absent == [exists |-> FALSE, blocks |-> <<>>]
EmbNdim == 3     \* (batch_n, 1, embedding_dim)
LabelNdim == 1   \* (batch_n,)

\* astype(np.float32) on a whole number: up to 2^24 in magnitude it is exact;
\* from there to 2^25 the float32 values are the even numbers, and an odd one
\* rounds to its neighbour with the even mantissa (the multiple of 4)
AsFloat32(x) ==
    IF x <= 16777216 /\ x >= -16777216 THEN x
    ELSE IF x % 2 = 0 THEN x
    ELSE IF (x + 1) % 4 = 0 THEN x + 1 ELSE x - 1

\* astype(np.int32): a value within the int32 range is kept as it is.  Labels
\* are 0 or 1, and every integer of this model lies within that range.
AsInt32(x) == IF x >= -2147483647 /\ x <= 2147483647 THEN x ELSE -2147483647 - 1

\* bert_model.vectorize([tokenizer.decode(text)]): one vector per chunk
vectorize(chunk) == 1000 * chunk + 7

\* The flush test written with i in place of i + 1
ShouldFlushOffByOne(idx, bs, num_texts) == idx % bs = 0 \/ idx + 1 = num_texts

\* (i + 1) % batch_size == 0 or i + 1 == num_texts
ShouldFlush(idx, bs, num_texts) == (idx + 1) % bs = 0 \/ idx + 1 = num_texts

StoreIdle ==
    /\ texts = <<>> /\ labels = <<>> /\ batch_size = 1 /\ file = Absent
    /\ i = 0 /\ embeddings = <<>> /\ all_labels = <<>> /\ wpc = "off"
    /\ runs = 0 /\ fail_k = -1 /\ rpc = "off"
    /\ loaded = [status |-> "none", embeddings |-> <<>>, labels |-> <<>>]

StoreInit ==
    \* chunk k of the input is chunk k: the encoder's vectors are pairwise
    \* different, so a lost, repeated or moved record shows in what is read
    /\ \E n \in 0..MaxRecords :
          /\ texts = [k \in 1..n |-> k]
          /\ labels \in [1..n -> Labels]
    /\ batch_size \in 1..MaxBatch
    /\ file = Absent
    /\ i = 0 /\ embeddings = <<>> /\ all_labels = <<>>
    /\ wpc = "idle"
    /\ runs = 0
    /\ fail_k = -1
    /\ loaded = [status |-> "none", embeddings |-> <<>>, labels |-> <<>>]
    /\ rpc = "idle"

WriterStopped == wpc \in {"idle", "done", "failed", "interrupted"}

\* A call of vectorize_text(texts, labels, filename, batch_size)
VectorizeTextCall ==
    /\ WriterStopped
    /\ runs < MaxRuns
    /\ runs' = runs + 1
    /\ i' = 0 /\ embeddings' = <<>> /\ all_labels' = <<>>
    /\ wpc' = "loop"
    /\ fail_k' = -1
    /\ rpc' = "idle"
    /\ loaded' = [status |-> "none", embeddings |-> <<>>, labels |-> <<>>]
    /\ UNCHANGED <<texts, labels, batch_size, file>>

\* One iteration up to the flush test: the encoder returns a vector
EmbedChunk ==
    /\ wpc = "loop"
    /\ i < ZipLen(texts, labels)
    /\ embeddings' = Append(embeddings, vectorize(texts[i + 1]))
    /\ all_labels' = Append(all_labels, labels[i + 1])
    /\ IF ShouldFlush(i, batch_size, Len(texts))
       THEN wpc' = "open" /\ i' = i
       ELSE wpc' = "loop" /\ i' = i + 1
    /\ UNCHANGED <<texts, labels, batch_size, file, runs, fail_k, loaded, rpc>>

\* The encoder raises on chunk i: the exception leaves vectorize_text, and
\* the buffered records are lost with its frame
EncoderFailure ==
    /\ wpc = "loop"
    /\ i < ZipLen(texts, labels)
    /\ wpc' = "failed"
    /\ fail_k' = i
    /\ i' = 0 /\ embeddings' = <<>> /\ all_labels' = <<>>
    /\ UNCHANGED <<texts, labels, batch_size, file, runs, loaded, rpc>>

\* open(filename, "ab") creates the file when it is missing, keeps it otherwise
OpenAppend ==
    /\ wpc = "open"
    /\ file' = [exists |-> TRUE, blocks |-> file.blocks]
    /\ wpc' = "save_embeddings"
    /\ UNCHANGED <<texts, labels, batch_size, i, embeddings, all_labels,
                   runs, fail_k, loaded, rpc>>

\* np.save(f, batch_embeddings)
SaveEmbeddings ==
    /\ wpc = "save_embeddings"
    /\ file' = [file EXCEPT !.blocks = Append(@,
                   [ndim |-> EmbNdim,
                    rows |-> [k \in 1..Len(embeddings) |-> AsFloat32(embeddings[k])]])]
    /\ wpc' = "save_labels"
    /\ UNCHANGED <<texts, labels, batch_size, i, embeddings, all_labels,
                   runs, fail_k, loaded, rpc>>

\* np.save(f, batch_labels), then both buffers are cleared
SaveLabels ==
    /\ wpc = "save_labels"
    /\ file' = [file EXCEPT !.blocks = Append(@,
                   [ndim |-> LabelNdim,
                    rows |-> [k \in 1..Len(all_labels) |-> AsInt32(all_labels[k])]])]
    /\ embeddings' = <<>>
    /\ all_labels' = <<>>
    /\ i' = i + 1
    /\ wpc' = "loop"
    /\ UNCHANGED <<texts, labels, batch_size, runs, fail_k, loaded, rpc>>

\* The loop is exhausted: return all_labels (empty after the last flush)
VectorizeTextReturn ==
    /\ wpc = "loop"
    /\ i >= ZipLen(texts, labels)
    /\ wpc' = "done"
    /\ i' = 0 /\ embeddings' = <<>> /\ all_labels' = <<>>
    /\ UNCHANGED <<texts, labels, batch_size, file, runs, fail_k, loaded, rpc>>

\* The process is stopped in the middle of a run (a restart): what was
\* buffered is lost, what was appended to the file stays
Interrupt ==
    /\ wpc \in {"loop", "open", "save_embeddings", "save_labels"}
    /\ wpc' = "interrupted"
    /\ i' = 0 /\ embeddings' = <<>> /\ all_labels' = <<>>
    /\ UNCHANGED <<texts, labels, batch_size, file, runs, fail_k, loaded, rpc>>

\* The while True loop of the reader: pairs of np.load until EOFError.  A
\* lone last block is loaded by the first np.load; the second raises EOFError
\* and the except clause breaks out before either list is appended to.
RECURSIVE ReadPairs(_)
ReadPairs(blocks) ==
    IF Len(blocks) < 2 THEN [embeddings |-> <<>>, labels |-> <<>>]
    ELSE LET rest == ReadPairs(SubSeq(blocks, 3, Len(blocks)))
         IN  [embeddings |-> <<blocks[1]>> \o rest.embeddings,
              labels     |-> <<blocks[2]>> \o rest.labels]

\* np.concatenate(arrays, axis=0) needs at least one array and equal ndim
CanConcatenate(arrays) ==
    /\ arrays # <<>>
    /\ \A k \in 1..Len(arrays) : arrays[k].ndim = arrays[1].ndim

Rows(arrays) == Concat([k \in 1..Len(arrays) |-> arrays[k].rows])

load_embeddings_and_labels(f) ==
    IF ~f.exists
    THEN [status |-> "FileNotFoundError", embeddings |-> <<>>, labels |-> <<>>]
    ELSE LET got == ReadPairs(f.blocks)
         IN  IF CanConcatenate(got.embeddings) /\ CanConcatenate(got.labels)
             THEN [status |-> "ok",
                   embeddings |-> Rows(got.embeddings),
                   labels |-> Rows(got.labels)]
             ELSE [status |-> "ValueError", embeddings |-> <<>>, labels |-> <<>>]

\* A call of load_embeddings_and_labels; the store is never read while written
LoadCall ==
    /\ WriterStopped
    /\ rpc = "idle"
    /\ loaded' = load_embeddings_and_labels(file)
    /\ rpc' = IF loaded'.status = "ok" THEN "returned" ELSE "raised"
    /\ UNCHANGED <<texts, labels, batch_size, file, i, embeddings, all_labels,
                   wpc, runs, fail_k>>

----------------------------------------------------------------------------
(* Specifications *)

Init == ChunkIdle /\ FlatIdle /\ AggIdle /\ StoreInit

Next ==
    \/ VectorizeTextCall /\ UNCHANGED <<chunkVars, flatVars, aggVars>>
    \/ EmbedChunk /\ UNCHANGED <<chunkVars, flatVars, aggVars>>
    \/ EncoderFailure /\ UNCHANGED <<chunkVars, flatVars, aggVars>>
    \/ OpenAppend /\ UNCHANGED <<chunkVars, flatVars, aggVars>>
    \/ SaveEmbeddings /\ UNCHANGED <<chunkVars, flatVars, aggVars>>
    \/ SaveLabels /\ UNCHANGED <<chunkVars, flatVars, aggVars>>
    \/ VectorizeTextReturn /\ UNCHANGED <<chunkVars, flatVars, aggVars>>
    \/ Interrupt /\ UNCHANGED <<chunkVars, flatVars, aggVars>>
    \/ LoadCall /\ UNCHANGED <<chunkVars, flatVars, aggVars>>

Spec == Init /\ [][Next]_vars

ChunkerInit == ChunkInit /\ FlatIdle /\ AggIdle /\ StoreIdle
ChunkerNext == ChunkCall /\ UNCHANGED <<flatVars, aggVars, storeVars>>
ChunkerSpec == ChunkerInit /\ [][ChunkerNext]_vars

FlattenerInit == ChunkIdle /\ FlatInit /\ AggIdle /\ StoreIdle
FlattenerNext == FlattenCall /\ UNCHANGED <<chunkVars, aggVars, storeVars>>
FlattenerSpec == FlattenerInit /\ [][FlattenerNext]_vars

AggregatorInit == ChunkIdle /\ FlatIdle /\ AggInit /\ StoreIdle
AggregatorNext == AggregateCall /\ UNCHANGED <<chunkVars, flatVars, storeVars>>
AggregatorSpec == AggregatorInit /\ [][AggregatorNext]_vars

----------------------------------------------------------------------------
(* Properties of the chunker, checked under ChunkerSpec *)

tokenized_text == encode(text)
payload == max_length - Margin

Wrapped(c) == Len(c) >= 2 /\ c[1] = cls_token_id /\ c[Len(c)] = sep_token_id
Unwrapped(c) == SubSeq(c, 2, Len(c) - 1)

ChunkRoundTrip ==
    /\ \A k \in 1..Len(chunks) : Wrapped(chunks[k])
    /\ Concat([k \in 1..Len(chunks) |-> Unwrapped(chunks[k])]) = tokenized_text

\* C9 as stated: for any raw token-id sequence and ANY max_length, stripping
\* the one start marker and the one end marker of every chunk and
\* concatenating the windows reproduces the raw token-id sequence.
C9_RoundTripAnyMaxLength == chunk_pc = "returned" => ChunkRoundTrip

\* C9 amended: for any raw token-id sequence and any max_length above the
\* margin of 10, tokenize_and_chunk returns, and stripping the one start
\* marker and the one end marker of every chunk and concatenating the windows
\* reproduces the raw token-id sequence.
C9_RoundTrip ==
    (chunk_pc # "call" /\ max_length > Margin) =>
        chunk_pc = "returned" /\ ChunkRoundTrip

\* Several chunks, the last window shorter than the first
C9_Witness ==
    /\ chunk_pc = "returned" /\ max_length > Margin
    /\ Len(chunks) >= 2
    /\ Len(chunks[Len(chunks)]) < Len(chunks[1])

\* C10 as stated: for every raw token-id sequence T and EVERY max_length,
\* with P = max_length - 10, the number of chunks is max(1, ceil(len(T)/P)).
C10_CountAnyMaxLength ==
    chunk_pc = "returned" =>
        Len(chunks) = Max(1, CeilDiv(Len(tokenized_text), payload))

\* C10 amended: for every raw token-id sequence T the tokenizer returns and
\* every max_length above 10, with P = max_length - 10, the number of chunks
\* is max(1, ceil(len(T)/P)): at least one, exactly one when len(T) <= P; a
\* document without words yields chunks that hold marker ids only.
C10_Count ==
    (chunk_pc # "call" /\ max_length > Margin) =>
        /\ chunk_pc = "returned"
        /\ Len(chunks) = Max(1, CeilDiv(Len(tokenized_text), payload))
        /\ Len(chunks) >= 1
        /\ (Len(tokenized_text) <= payload => Len(chunks) = 1)
        /\ (text = <<>> =>
               \A k \in 1..Len(chunks) : \A j \in 1..Len(chunks[k]) :
                   chunks[k][j] \in {cls_token_id, sep_token_id})

\* Three or more chunks from a length that is no multiple of the payload
C10_Witness ==
    /\ chunk_pc = "returned" /\ max_length > Margin
    /\ Len(chunks) >= 3
    /\ Len(tokenized_text) % payload # 0

----------------------------------------------------------------------------
(* Properties of the flattener, checked under FlattenerSpec *)

ChunkCounts(ts) == Lengths(ts)

\* C5: for inputs of equal length, flatten_chunks returns two sequences whose
\* lengths both equal the sum of the documents' chunk counts; the chunks come
\* in document order and, within a document, in the document's order; and the
\* label at every index is the label of the document its chunk came from.
C5_FlattenAlignment ==
    (fl_pc # "call" /\ Len(fl_texts) = Len(fl_labels)) =>
        /\ fl_pc = "returned"
        /\ Len(fl_out.all_texts) = SumSeq(ChunkCounts(fl_texts))
        /\ Len(fl_out.all_labels) = SumSeq(ChunkCounts(fl_texts))
        /\ \A d \in 1..Len(fl_texts) : \A c \in 1..Len(fl_texts[d]) :
              LET at == PrefixSum(ChunkCounts(fl_texts), d - 1) + c
              IN  /\ fl_out.all_texts[at] = fl_texts[d][c]
                  /\ fl_out.all_labels[at] = fl_labels[d]

\* Two documents with different labels, the first with two different chunks
C5_Witness ==
    /\ fl_pc = "returned"
    /\ Len(fl_texts) = 2 /\ Len(fl_labels) = 2
    /\ fl_labels[1] # fl_labels[2]
    /\ Len(fl_texts[1]) = 2 /\ fl_texts[1][1] # fl_texts[1][2]
    /\ Len(fl_texts[2]) >= 1

\* C8: whenever len(texts) # len(labels), flatten_chunks fails and returns
\* nothing.
C8_FlattenRejectsUnequalLengths ==
    (fl_pc # "call" /\ Len(fl_texts) # Len(fl_labels)) => fl_pc = "raised"

----------------------------------------------------------------------------
(* Properties of the aggregator, checked under AggregatorSpec *)

C7_AggregateRejectsShapeMismatch ==
    (agg_pc # "call" /\ SumSeq(ChunkCounts(text_chunks)) # Len(predictions)) =>
        agg_pc = "raised"

----------------------------------------------------------------------------
(* Properties of the embedding store, checked under Spec *)

\* The records handed to the writer: the encoder's vector of every chunk, and
\* the labels
RecordEmbeddings == [k \in 1..Len(texts) |-> vectorize(texts[k])]

LoadedIs(embs, labs) ==
    loaded.status = "ok" /\ loaded.embeddings = embs /\ loaded.labels = labs

\* C1: for every sequence of records, the empty one included, and every
\* batch_size >= 1, a complete vectorize_text run on a fresh destination
\* followed by load_embeddings_and_labels returns exactly the records written,
\* in order.
C1_StoreRoundTrip ==
    (runs = 1 /\ wpc = "done" /\ rpc # "idle") =>
        LoadedIs(RecordEmbeddings, labels)

\* The same round trip for one record or more: it holds for every batch size
StoreRoundTripNonEmpty ==
    (runs = 1 /\ wpc = "done" /\ rpc # "idle" /\ texts # <<>>) =>
        LoadedIs(RecordEmbeddings, labels)

\* C2: after any sequence of complete or interrupted runs of vectorize_text on
\* the same destination that ends with a completed run, the store read back
\* holds every input record exactly once, in order.
C2_RerunDoesNotDuplicate ==
    (wpc = "done" /\ rpc = "returned") =>
        LoadedIs(RecordEmbeddings, labels)

\* C3: when the encoder fails on chunk k (0-based) of a run with batch size b
\* on a fresh destination, the run fails, the destination holds exactly the
\* first floor(k/b)*b records as complete (embedding block, label block)
\* pairs in input order, and, when a batch was flushed, the reader succeeds
\* and returns exactly those records.
C3_EncoderFailureKeepsFlushedBatches ==
    (runs = 1 /\ fail_k >= 0) =>
        LET batches == fail_k \div batch_size
            kept == batches * batch_size
        IN  /\ wpc = "failed"
            /\ file.exists <=> batches > 0
            /\ Len(file.blocks) = 2 * batches
            /\ \A j \in 1..batches :
                  /\ file.blocks[2 * j - 1] =
                        [ndim |-> EmbNdim,
                         rows |-> SubSeq(RecordEmbeddings,
                                         (j - 1) * batch_size + 1, j * batch_size)]
                  /\ file.blocks[2 * j] =
                        [ndim |-> LabelNdim,
                         rows |-> SubSeq(labels,
                                         (j - 1) * batch_size + 1, j * batch_size)]
            /\ (rpc # "idle" /\ batches > 0) =>
                  LoadedIs(SubSeq(RecordEmbeddings, 1, kept), SubSeq(labels, 1, kept))

\* The encoder fails with a batch flushed and a record buffered, and the
\* store is read afterwards
C3_Witness ==
    /\ runs = 1 /\ wpc = "failed"
    /\ fail_k > batch_size /\ fail_k % batch_size # 0
    /\ rpc = "returned"
    /\ Len(loaded.labels) = batch_size

\* C4: when the store ends with a block that has no partner, the reader fails
\* instead of returning arrays.
C4_TrailingPartialBatchRejected ==
    (rpc # "idle" /\ file.exists /\ Len(file.blocks) % 2 = 1) =>
        loaded.status # "ok"

====
